---- MODULE Spec2Model ----
(***************************************************************************)
(* Simulation replay engine of the fleet dashboard: the server action      *)
(* fetchSimulationData (src/app/simulation/actions.ts, first revision in   *)
(* the file, lines 105-424) that turns the backend's event log, delivered  *)
(* as a JSON event list or as newline-delimited text, into synchronized    *)
(* frames, and the player component SimulationPlayer                      *)
(* (src/components/simulation/simulation-player.tsx) that replays them:    *)
(* its interpolation function and its play / pause / seek / speed / reset  *)
(* state under the animation frame callback.                               *)
(*                                                                         *)
(* A regular-expression match is modelled as an option: <<>> when the      *)
(* pattern does not match the line / data string, <<v>> (or <<a, b>> for a  *)
(* tuple pattern) when it does, v being the parseInt of the digits.         *)
(***************************************************************************)
EXTENDS Integers, Sequences, FiniteSets, TLC

\* Longest log Fetch draws from the event universe (longer fixed scenario
\* logs are listed separately in ScenarioLogs).
MaxLen == 3

\* Longest such log delivered as a bare JSON array instead of {"events": [...]}.
MaxBareLen == 2

TASK_DWELL_FRAMES == 15
frameInterval == 100

VARIABLES
    pc,             \* position inside fetchSimulationData
    response,       \* what fetch resolved to: outcome and body
    caught,         \* which catch block ran: "none", "inner" or "outer"
    mode,           \* "json": parseJSONEvents runs; "text": the line parser runs
    events,         \* the list being scanned: JSON elements or text lines
    idx,            \* 1-based position of the second scan in events
    phase,          \* "ps": before the PLANNER_START branch of events[idx]; "me": after it
    robotInfoMap,   \* Map in insertion order: sequence of [id, name, type, startX, startY]
    mapWidth,
    mapHeight,
    robotPaths,     \* Map robotId -> sequence of [x, y]
    robotTaskCount, \* Map robotId -> count, an absent key reads 0
    result,         \* value the promise resolves to
    simulationData, \* the player's prop: [frames |-> sequence of [time, robots]]
    time,           \* argument of the last interpolateRobots call looked at
    pose,           \* what that call returned
    trail,          \* <<>>, or <<[time, samples]>>: the trail loop of the last draw looked at
    mounted,        \* the player component is mounted
    isPlaying,      \* useState(false)
    currentTime,    \* useState(0), in ms
    speed,          \* useState(1), counted in halves: 2 is speed 1
    startTimeRef,   \* <<>> for null, else <<[at, time, speed]>>: the number at - time / speed
    frameCallbacks, \* callbacks requestAnimationFrame holds, in request order:
                    \* [speed, isPlaying] of the closure, ref: animationRef.current names it
    now,            \* performance.now(), in ms after the mount
    lastTimestamp,  \* timestamp of the last animation frame that ran
    drawnTime,      \* time argument of the last draw call
    lastOp          \* the last handler or callback that ran: [op, arg, at]

builderVars == <<pc, response, caught, mode, events, idx, phase, robotInfoMap,
                 mapWidth, mapHeight, robotPaths, robotTaskCount, result>>

poseVars == <<time, pose, trail>>

engineVars == <<mounted, isPlaying, currentTime, speed, startTimeRef, frameCallbacks,
                now, lastTimestamp, drawnTime, lastOp>>

playerVars == <<simulationData, poseVars, engineVars>>

vars == <<builderVars, playerVars>>

PS == "PLANNER_START"
ME == "MOVE_EXECUTED"

Min(a, b) == IF a < b THEN a ELSE b
Max(a, b) == IF a > b THEN a ELSE b

----------------------------------------------------------------------------
(* The event universe.                                                     *)

\* Matches of the six patterns on one data string / line.
Fields(id, name, start, map, x, y) ==
    [robotId |-> id, robotName |-> name, start |-> start, map |-> map, x |-> x, y |-> y]

NoFields == Fields(<<>>, <<>>, <<>>, <<>>, <<>>, <<>>)

\* One element of the log.  shape: "ok" (type and a string data), "nodata"
\* (data missing or not a string), "null" (the element is null); tags: the
\* recognised kinds the element carries (JSON: its type; text: the markers the
\* line includes).
Entry(shape, tags, f) == [shape |-> shape, tags |-> tags, f |-> f]

PlannerStart(id, name, start, map) ==
    Entry("ok", {PS}, Fields(id, name, start, map, <<>>, <<>>))

MoveExecuted(id, x, y) ==
    Entry("ok", {ME}, Fields(id, <<>>, <<>>, <<>>, x, y))

OtherEvent == Entry("ok", {}, Fields(<<"r1">>, <<>>, <<>>, <<>>, <<3>>, <<3>>))

\* Names of kinds the builder has no branch for: one that holds no marker and
\* one that holds the text PLANNER_START inside a longer name.
OtherKinds == {"PATH", "PLANNER_START_FAILED"}

\* event.type === 'PLANNER_START' / 'MOVE_EXECUTED': the type itself or nothing.
TypeTags(kind) == {kind} \cap {PS, ME}

\* Mutation: the line parser looks for PLANNER_START only.
MarkersInPlannerOnly(kind) ==
    CASE kind = PS -> {PS}
      [] kind = "PLANNER_START_FAILED" -> {PS}
      [] OTHER -> {}

\* line.includes('PLANNER_START') / line.includes('MOVE_EXECUTED') on a line
\* that starts with the kind tag: every marker found inside the tag.
MarkersIn(kind) ==
    CASE kind = PS -> {PS}
      [] kind = ME -> {ME}
      [] kind = "PLANNER_START_FAILED" -> {PS}
      [] OTHER -> {}

\* An event of the given kind with data matching f, as the parser of each
\* format sees it.
WireEntry(fmt, kind, f) ==
    Entry("ok", IF fmt = "json" THEN TypeTags(kind) ELSE MarkersIn(kind), f)

\* Events both encodings can carry.
CommonEvents ==
    { PlannerStart(<<"r1">>, <<"Rover">>, <<0, 0>>, <<10, 10>>),
      PlannerStart(<<"r1">>, <<"Rover">>, <<4, 4>>, <<10, 10>>),
      PlannerStart(<<"r2">>, <<"Sky DRONE">>, <<2, 0>>, <<20, 20>>),
      PlannerStart(<<"r1">>, <<>>, <<0, 0>>, <<10, 10>>),
      PlannerStart(<<>>, <<"Rover">>, <<0, 0>>, <<10, 10>>),
      MoveExecuted(<<"r1">>, <<1>>, <<1>>),
      MoveExecuted(<<"r2">>, <<5>>, <<5>>),
      MoveExecuted(<<"r1">>, <<6>>, <<>>),
      OtherEvent }

\* Elements only a JSON list can hold.
JsonOnlyEvents ==
    { Entry("null", {}, NoFields),
      Entry("nodata", {PS}, NoFields),
      Entry("nodata", {ME}, NoFields) }

\* A text line that includes both markers, and the line of an event of kind
\* PLANNER_START_FAILED with the data of OtherEvent.
TextOnlyEvents ==
    { Entry("ok", {PS, ME},
            Fields(<<"r1">>, <<"Rover">>, <<0, 0>>, <<10, 10>>, <<8>>, <<8>>)),
      WireEntry("text", "PLANNER_START_FAILED", OtherEvent.f) }

JsonEvents == CommonEvents \cup JsonOnlyEvents
TextEvents == CommonEvents \cup TextOnlyEvents

RobotIds == {"r1", "r2"}

SeqsUpTo(S, n) == UNION { [1..k -> S] : k \in 0..n }

\* Fixed longer logs: three moves of one agent (19 frames), two tasks of one
\* agent with moves in both, and two agents with 5 and 2 moves in every
\* interleaving.
PSA == PlannerStart(<<"r1">>, <<"Rover">>, <<0, 0>>, <<10, 10>>)
PSB == PlannerStart(<<"r2">>, <<"Sky DRONE">>, <<2, 0>>, <<20, 20>>)
MoveA(k) == MoveExecuted(<<"r1">>, <<k>>, <<k>>)
MoveB(k) == MoveExecuted(<<"r2">>, <<2 + k>>, <<k>>)

RECURSIVE Interleave(_, _)
Interleave(a, b) ==
    IF a = <<>> THEN {b}
    ELSE IF b = <<>> THEN {a}
    ELSE { <<Head(a)>> \o s : s \in Interleave(Tail(a), b) }
         \cup { <<Head(b)>> \o s : s \in Interleave(a, Tail(b)) }

ThreeMoves == <<PSA, MoveA(1), MoveA(2), MoveA(3)>>

FiveAndTwo ==
    { <<PSA, PSB>> \o s :
        s \in Interleave(<<MoveA(1), MoveA(2), MoveA(3), MoveA(4), MoveA(5)>>,
                         <<MoveB(1), MoveB(2)>>) }

TwoTasks == <<PSA, MoveA(1), MoveA(2), PSA, MoveA(3)>>

ScenarioLogs == {ThreeMoves, TwoTasks} \cup FiveAndTwo

\* A record of another kind that has no data field, alone and around the
\* events of one agent (structured lists only).
WithoutData == Entry("nodata", {}, NoFields)

PayloadFreeLogs ==
    { <<WithoutData>>,
      <<WithoutData, PSA>>,
      <<PSA, WithoutData, MoveA(1)>>,
      <<PSA, MoveA(1), WithoutData>> }

\* Response bodies.  fmt "json": the text is a JSON document whose root is an
\* array ("array"), an object with an array-valued events field ("events"),
\* null ("null") or any other value ("other"); fmt "text": JSON.parse throws.
Body(fmt, root, entries) == [fmt |-> fmt, root |-> root, entries |-> entries]

NoBody == Body("text", "none", <<>>)

Bodies ==
    { Body("json", "events", s) :
        s \in SeqsUpTo(JsonEvents, MaxLen) \cup ScenarioLogs \cup PayloadFreeLogs }
    \cup { Body("json", "array", s) : s \in SeqsUpTo(JsonEvents, MaxBareLen) \cup ScenarioLogs }
    \cup { Body("json", r, <<>>) : r \in {"null", "other"} }
    \cup { Body("text", "none", s) : s \in SeqsUpTo(TextEvents, MaxLen) \cup ScenarioLogs }

----------------------------------------------------------------------------
(* Reading the body.                                                       *)

\* JSON.parse(text) succeeds and `data.events || data` is an array.
IsEventList(body) == body.fmt = "json" /\ body.root \in {"array", "events"}

\* The line parser's view of a JSON document: a string value of JSON text
\* writes each double quote as \", so robotId="..." and robotName="..." match
\* nowhere; the markers and the digit patterns read as in the data.
JsonTextLine(e) ==
    IF e.shape = "ok"
    THEN Entry("ok", e.tags, [e.f EXCEPT !.robotId = <<>>, !.robotName = <<>>])
    ELSE Entry("ok", e.tags, NoFields)

\* text.trim().split('\n'): never an empty array, the empty text gives [""].
SplitLines(body) ==
    LET ls == IF body.fmt = "json"
              THEN [k \in 1..Len(body.entries) |-> JsonTextLine(body.entries[k])]
              ELSE body.entries
    IN  IF ls = <<>> THEN <<Entry("ok", {}, NoFields)>> ELSE ls

----------------------------------------------------------------------------
(* First loop: the robot info map.                                         *)

\* robotName.toLowerCase().includes("drone") over the names of the universe.
RobotType(name) == IF name \in {"Sky DRONE"} THEN "drone" ELSE "rover"

HasRobot(info, id) == \E k \in 1..Len(info) : info[k].id = id

\* Reading event.type of a null element, or calling match on a data that is
\* not a string, throws a TypeError (parseJSONEvents only; a line is a string).
TypeThrows(m, e) == m = "json" /\ e.shape = "null"
DataThrows(m, e) == m = "json" /\ e.shape = "nodata"

\* robotIdMatch && robotNameMatch && startMatch && mapMatch
AllMatched(f) ==
    f.robotId # <<>> /\ f.robotName # <<>> /\ f.start # <<>> /\ f.map # <<>>

\* Mutation: robotInfoMap.set without the has() test, a later PLANNER_START
\* of a registered robot replaces its record.
RegisterRobotOverwrite(acc, m, e) ==
    IF acc.threw THEN acc
    ELSE IF TypeThrows(m, e) THEN [acc EXCEPT !.threw = TRUE]
    ELSE IF PS \notin e.tags THEN acc
    ELSE IF DataThrows(m, e) THEN [acc EXCEPT !.threw = TRUE]
    ELSE IF AllMatched(e.f)
         THEN LET rec == [id |-> e.f.robotId[1],
                          name |-> e.f.robotName[1],
                          type |-> RobotType(e.f.robotName[1]),
                          startX |-> e.f.start[1],
                          startY |-> e.f.start[2]]
              IN  [acc EXCEPT
                     !.w = e.f.map[1],
                     !.h = e.f.map[2],
                     !.info = IF HasRobot(acc.info, rec.id)
                              THEN [k \in 1..Len(@) |-> IF @[k].id = rec.id THEN rec ELSE @[k]]
                              ELSE Append(@, rec)]
         ELSE acc

\* One iteration of the first loop on accumulator [threw, info, w, h].
RegisterRobot(acc, m, e) ==
    IF acc.threw THEN acc
    ELSE IF TypeThrows(m, e) THEN [acc EXCEPT !.threw = TRUE]
    ELSE IF PS \notin e.tags THEN acc
    ELSE IF DataThrows(m, e) THEN [acc EXCEPT !.threw = TRUE]
    ELSE IF AllMatched(e.f)
         THEN [acc EXCEPT
                 !.w = e.f.map[1],
                 !.h = e.f.map[2],
                 !.info = IF HasRobot(acc.info, e.f.robotId[1])
                          THEN @
                          ELSE Append(@, [id |-> e.f.robotId[1],
                                          name |-> e.f.robotName[1],
                                          type |-> RobotType(e.f.robotName[1]),
                                          startX |-> e.f.start[1],
                                          startY |-> e.f.start[2]])]
         ELSE acc

RECURSIVE InfoLoop(_, _, _, _)
InfoLoop(acc, m, evs, k) ==
    IF k > Len(evs) THEN acc
    ELSE InfoLoop(RegisterRobot(acc, m, evs[k]), m, evs, k + 1)

BuildRobotInfo(m, evs) ==
    InfoLoop([threw |-> FALSE, info |-> <<>>, w |-> 0, h |-> 0], m, evs, 1)

\* robotPaths.set(robotId, [{x: startX, y: startY}]) for every registered robot.
InitialPaths(info) ==
    [id \in { info[k].id : k \in 1..Len(info) } |->
        LET k == CHOOSE j \in 1..Len(info) : info[j].id = id
        IN  <<[x |-> info[k].startX, y |-> info[k].startY]>>]

NoCounts == [id \in RobotIds |-> 0]

----------------------------------------------------------------------------
(* Second loop: paths with dwell frames.                                   *)

\* Mutation: the push loop stops one iteration early.
AppendDwellShort(path) ==
    IF Len(path) > 0
    THEN path \o [i \in 1..(TASK_DWELL_FRAMES - 1) |-> path[Len(path)]]
    ELSE path

\* TASK_DWELL_FRAMES pushes of the path's last position; nothing on an empty path.
AppendDwell(path) ==
    IF Len(path) > 0
    THEN path \o [i \in 1..TASK_DWELL_FRAMES |-> path[Len(path)]]
    ELSE path

\* Mutation: the dwell frames are added on a robot's first task too.
PlannerStartBranchEveryTask(paths, counts, e) ==
    IF e.f.robotId = <<>> THEN [paths |-> paths, counts |-> counts]
    ELSE LET robotId == e.f.robotId[1]
             currentCount == counts[robotId]
         IN  [counts |-> [counts EXCEPT ![robotId] = currentCount + 1],
              paths |-> IF currentCount >= 0 /\ robotId \in DOMAIN paths
                        THEN [paths EXCEPT ![robotId] = @ \o
                                 [i \in 1..TASK_DWELL_FRAMES |-> paths[robotId][Len(paths[robotId])]]]
                        ELSE paths]

\* The PLANNER_START branch on one event: [paths, counts] after it.
PlannerStartBranch(paths, counts, e) ==
    IF e.f.robotId = <<>> THEN [paths |-> paths, counts |-> counts]
    ELSE LET robotId == e.f.robotId[1]
             currentCount == counts[robotId]
         IN  [counts |-> [counts EXCEPT ![robotId] = currentCount + 1],
              paths |-> IF currentCount > 0 /\ robotId \in DOMAIN paths
                        THEN [paths EXCEPT ![robotId] = AppendDwell(@)]
                        ELSE paths]

\* Mutation: a move without y is pushed with y = 0.
MoveExecutedBranchDefaultY(paths, e) ==
    IF e.f.robotId # <<>> /\ e.f.x # <<>>
       /\ e.f.robotId[1] \in DOMAIN paths
    THEN [paths EXCEPT ![e.f.robotId[1]] =
             Append(@, [x |-> e.f.x[1], y |-> IF e.f.y = <<>> THEN 0 ELSE e.f.y[1]])]
    ELSE paths

\* The MOVE_EXECUTED branch on one event: the paths after it.
MoveExecutedBranch(paths, e) ==
    IF e.f.robotId # <<>> /\ e.f.x # <<>> /\ e.f.y # <<>>
       /\ e.f.robotId[1] \in DOMAIN paths
    THEN [paths EXCEPT ![e.f.robotId[1]] = Append(@, [x |-> e.f.x[1], y |-> e.f.y[1]])]
    ELSE paths

\* Mutation: no final dwell.
FinalDwellSkipped(paths) == paths

\* The final dwell of every path.
FinalDwell(paths) == [id \in DOMAIN paths |-> AppendDwell(paths[id])]

RECURSIVE SetMax(_)
SetMax(S) ==
    IF S = {} THEN 0
    ELSE LET v == CHOOSE u \in S : TRUE IN Max(v, SetMax(S \ {v}))

RECURSIVE SetMin(_)
SetMin(S) ==
    LET v == CHOOSE u \in S : TRUE
    IN  IF S = {v} THEN v ELSE Min(v, SetMin(S \ {v}))

\* Mutation: the shortest path decides the number of frames.
MaxPathLengthShortest(paths) == SetMin({ Len(paths[id]) : id \in DOMAIN paths })

MaxPathLength(paths) == SetMax({ Len(paths[id]) : id \in DOMAIN paths })

----------------------------------------------------------------------------
(* Frames and the returned value.                                          *)

\* Mutation: a finished robot is shown at the start of its path again.
PathIndexRestart(frameIndex, path) ==
    IF frameIndex < Len(path) THEN frameIndex ELSE 0

\* Position of a robot in frame frameIndex (0-based).
PathIndex(frameIndex, path) == Min(frameIndex, Len(path) - 1)

\* Mutation: the frame index is left out of the time.
FrameTimeConstant(frameIndex) == frameInterval

FrameTime(frameIndex) == frameIndex * frameInterval

\* Mutation: a robot whose path has ended is left out of the frame.
RobotsInFrameActiveOnly(info, paths, frameIndex) ==
    LET all == [k \in 1..Len(info) |->
                  LET path == paths[info[k].id]
                      pos  == path[Min(frameIndex, Len(path) - 1) + 1]
                  IN  [id |-> info[k].id, name |-> info[k].name, type |-> info[k].type,
                       x |-> pos.x, y |-> pos.y]]
        Active(r) == frameIndex < Len(paths[r.id])
    IN  SelectSeq(all, Active)

RobotsInFrame(info, paths, frameIndex) ==
    [k \in 1..Len(info) |->
        LET path == paths[info[k].id]
            pos  == path[PathIndex(frameIndex, path) + 1]
        IN  [id |-> info[k].id, name |-> info[k].name, type |-> info[k].type,
             x |-> pos.x, y |-> pos.y]]

BuildFrames(info, paths, maxPathLength) ==
    [i \in 1..maxPathLength |->
        [time |-> FrameTime(i - 1), robots |-> RobotsInFrame(info, paths, i - 1)]]

Pending == [status |-> "pending", mapId |-> "", mapName |-> <<>>, frames |-> <<>>]
NullResult == [status |-> "null", mapId |-> "", mapName |-> <<>>, frames |-> <<>>]

\* `Pathfinding (${mapWidth}x${mapHeight})` kept as its three parts.
SimulationData(w, h, frames) ==
    [status |-> "data", mapId |-> "current", mapName |-> <<"Pathfinding", w, h>>,
     frames |-> frames]

\* From the maxPathLength computation to the return statement.
FramesResult(info, paths, w, h) ==
    LET maxPathLength == MaxPathLength(paths)
    IN  IF maxPathLength = 0 THEN NullResult
        ELSE SimulationData(w, h, BuildFrames(info, paths, maxPathLength))

\* Mutation: the error is thrown again instead of being swallowed.
CatchResultRethrow ==
    [status |-> "exception", mapId |-> "", mapName |-> <<>>, frames |-> <<>>]

\* The outer catch block: log the error, return null.
CatchResult == NullResult

----------------------------------------------------------------------------
(* fetchSimulationData as a state machine.                                 *)

NoPaths == [id \in {} |-> <<>>]

\* The page shows no player before the data is there.
NoOp == [op |-> "none", arg |-> 0, at |-> 0]

NoEngine ==
    /\ mounted = FALSE
    /\ isPlaying = FALSE
    /\ currentTime = 0
    /\ speed = 2
    /\ startTimeRef = <<>>
    /\ frameCallbacks = <<>>
    /\ now = 0
    /\ lastTimestamp = 0
    /\ drawnTime = 0
    /\ lastOp = NoOp

NoPlayer ==
    /\ simulationData = [frames |-> <<>>]
    /\ time = 0
    /\ pose = <<>>
    /\ trail = <<>>
    /\ NoEngine

\* fetchSimulationData has not been called.
FetchNotStarted ==
    /\ pc = "fetch"
    /\ response = [outcome |-> "pending", body |-> NoBody]
    /\ caught = "none"
    /\ mode = "none"
    /\ events = <<>>
    /\ idx = 0
    /\ phase = "ps"
    /\ robotInfoMap = <<>>
    /\ mapWidth = 0
    /\ mapHeight = 0
    /\ robotPaths = NoPaths
    /\ robotTaskCount = NoCounts
    /\ result = Pending

Init == FetchNotStarted /\ NoPlayer

\* fetch rejects, resolves with res.ok false and the function throws, or
\* res.text() rejects.
FetchFails ==
    /\ pc = "fetch"
    /\ \E o \in {"network_error", "not_ok", "body_error"} :
          response' = [outcome |-> o, body |-> NoBody]
    /\ pc' = "catch"
    /\ UNCHANGED <<playerVars, caught, mode, events, idx, phase, robotInfoMap, mapWidth,
                   mapHeight, robotPaths, robotTaskCount, result>>

\* fetch resolves with res.ok and res.text() gives the body.
FetchOk ==
    /\ pc = "fetch"
    /\ \E b \in Bodies : response' = [outcome |-> "ok", body |-> b]
    /\ pc' = "parse"
    /\ UNCHANGED <<playerVars, caught, mode, events, idx, phase, robotInfoMap, mapWidth,
                   mapHeight, robotPaths, robotTaskCount, result>>

\* JSON.parse gives an event list: parseJSONEvents(events) is entered.
ParseStructured ==
    /\ pc = "parse"
    /\ IsEventList(response.body)
    /\ mode' = "json"
    /\ events' = response.body.entries
    /\ pc' = "info"
    /\ UNCHANGED <<playerVars, response, caught, idx, phase, robotInfoMap, mapWidth,
                   mapHeight, robotPaths, robotTaskCount, result>>

\* JSON.parse throws (or data.events of null does) and the inner catch runs, or
\* the parsed value is no array: the text is split into lines.
ParseAsText ==
    /\ pc = "parse"
    /\ ~IsEventList(response.body)
    /\ mode' = "text"
    /\ events' = SplitLines(response.body)
    /\ caught' = IF response.body.fmt = "text" \/ response.body.root = "null"
                 THEN "inner" ELSE caught
    /\ pc' = "info"
    /\ UNCHANGED <<playerVars, response, idx, phase, robotInfoMap, mapWidth, mapHeight,
                   robotPaths, robotTaskCount, result>>

\* parseJSONEvents throws inside the inner try: its locals are dropped and the
\* line parser starts on the same text.
FallBackToText ==
    /\ mode' = "text"
    /\ events' = SplitLines(response.body)
    /\ caught' = "inner"
    /\ pc' = "info"
    /\ idx' = 0
    /\ phase' = "ps"
    /\ robotInfoMap' = <<>>
    /\ mapWidth' = 0
    /\ mapHeight' = 0
    /\ robotPaths' = NoPaths
    /\ robotTaskCount' = NoCounts
    /\ UNCHANGED <<playerVars, response, result>>

\* The first loop throws.
InfoThrows ==
    /\ pc = "info"
    /\ BuildRobotInfo(mode, events).threw
    /\ FallBackToText

\* The first loop ends with robotInfoMap.size === 0: return null.
InfoEmpty ==
    /\ pc = "info"
    /\ LET acc == BuildRobotInfo(mode, events)
       IN  /\ ~acc.threw
           /\ acc.info = <<>>
    /\ result' = NullResult
    /\ pc' = "done"
    /\ UNCHANGED <<playerVars, response, caught, mode, events, idx, phase, robotInfoMap,
                   mapWidth, mapHeight, robotPaths, robotTaskCount>>

\* The first loop ends with at least one robot: the paths are initialised.
InfoFound ==
    /\ pc = "info"
    /\ LET acc == BuildRobotInfo(mode, events)
       IN  /\ ~acc.threw
           /\ acc.info # <<>>
           /\ robotInfoMap' = acc.info
           /\ mapWidth' = acc.w
           /\ mapHeight' = acc.h
           /\ robotPaths' = InitialPaths(acc.info)
    /\ robotTaskCount' = NoCounts
    /\ idx' = 1
    /\ phase' = "ps"
    /\ pc' = "scan"
    /\ UNCHANGED <<playerVars, response, caught, mode, events, result>>

\* Second loop, events[idx] is a PLANNER_START with readable data.
ScanPlannerStart ==
    /\ pc = "scan"
    /\ idx <= Len(events)
    /\ phase = "ps"
    /\ LET e == events[idx]
       IN  /\ PS \in e.tags
           /\ ~TypeThrows(mode, e)
           /\ ~DataThrows(mode, e)
           /\ LET r == PlannerStartBranch(robotPaths, robotTaskCount, e)
              IN  /\ robotPaths' = r.paths
                  /\ robotTaskCount' = r.counts
           /\ IF ME \in e.tags
              THEN phase' = "me" /\ idx' = idx
              ELSE phase' = "ps" /\ idx' = idx + 1
    /\ UNCHANGED <<playerVars, pc, response, caught, mode, events, robotInfoMap, mapWidth,
                   mapHeight, result>>

\* Second loop, events[idx] is a MOVE_EXECUTED with readable data.
ScanMoveExecuted ==
    /\ pc = "scan"
    /\ idx <= Len(events)
    /\ LET e == events[idx]
       IN  /\ ME \in e.tags
           /\ phase = "me" \/ PS \notin e.tags
           /\ ~TypeThrows(mode, e)
           /\ ~DataThrows(mode, e)
           /\ robotPaths' = MoveExecutedBranch(robotPaths, e)
    /\ idx' = idx + 1
    /\ phase' = "ps"
    /\ UNCHANGED <<playerVars, pc, response, caught, mode, events, robotInfoMap, mapWidth,
                   mapHeight, robotTaskCount, result>>

\* Mutation: the data of the event is matched before its type is looked at.
ScanOtherDataFirst ==
    /\ pc = "scan"
    /\ idx <= Len(events)
    /\ events[idx].tags = {}
    /\ ~TypeThrows(mode, events[idx])
    /\ IF DataThrows(mode, events[idx])
       THEN FallBackToText
       ELSE /\ idx' = idx + 1
            /\ UNCHANGED <<playerVars, pc, response, caught, mode, events, phase, robotInfoMap,
                           mapWidth, mapHeight, robotPaths, robotTaskCount, result>>

\* Second loop, events[idx] is of neither kind: nothing is read but its type.
ScanOther ==
    /\ pc = "scan"
    /\ idx <= Len(events)
    /\ LET e == events[idx]
       IN  /\ e.tags = {}
           /\ ~TypeThrows(mode, e)
    /\ idx' = idx + 1
    /\ UNCHANGED <<playerVars, pc, response, caught, mode, events, phase, robotInfoMap,
                   mapWidth, mapHeight, robotPaths, robotTaskCount, result>>

\* Second loop, event.data.match throws on events[idx].
ScanThrows ==
    /\ pc = "scan"
    /\ idx <= Len(events)
    /\ LET e == events[idx]
       IN  TypeThrows(mode, e) \/ (e.tags # {} /\ DataThrows(mode, e))
    /\ FallBackToText

\* After the second loop: the final dwell frames of every path.
ScanDone ==
    /\ pc = "scan"
    /\ idx > Len(events)
    /\ robotPaths' = FinalDwell(robotPaths)
    /\ pc' = "frames"
    /\ UNCHANGED <<playerVars, response, caught, mode, events, idx, phase, robotInfoMap,
                   mapWidth, mapHeight, robotTaskCount, result>>

\* maxPathLength, the frames and the return.
ReturnFrames ==
    /\ pc = "frames"
    /\ result' = FramesResult(robotInfoMap, robotPaths, mapWidth, mapHeight)
    /\ pc' = "done"
    /\ UNCHANGED <<playerVars, response, caught, mode, events, idx, phase, robotInfoMap,
                   mapWidth, mapHeight, robotPaths, robotTaskCount>>

\* The outer catch.
Catch ==
    /\ pc = "catch"
    /\ result' = CatchResult
    /\ caught' = "outer"
    /\ pc' = "done"
    /\ UNCHANGED <<playerVars, response, mode, events, idx, phase, robotInfoMap, mapWidth,
                   mapHeight, robotPaths, robotTaskCount>>

Next ==
    \/ FetchFails
    \/ FetchOk
    \/ ParseStructured
    \/ ParseAsText
    \/ InfoThrows
    \/ InfoEmpty
    \/ InfoFound
    \/ ScanPlannerStart
    \/ ScanMoveExecuted
    \/ ScanOther
    \/ ScanThrows
    \/ ScanDone
    \/ ReturnFrames
    \/ Catch

Spec == Init /\ [][Next]_vars

TypeOK ==
    /\ pc \in {"fetch", "parse", "info", "scan", "frames", "catch", "done"}
    /\ caught \in {"none", "inner", "outer"}
    /\ mode \in {"none", "json", "text"}
    /\ phase \in {"ps", "me"}
    /\ result.status \in {"pending", "null", "data"}
    /\ (pc = "done") = (result.status # "pending")

----------------------------------------------------------------------------
(* The same computation as one function of the body, for statements that   *)
(* compare the outputs of two logs.                                        *)

\* One iteration of the second loop on accumulator [threw, paths, counts].
ScanEvent(st, m, e) ==
    IF st.threw THEN st
    ELSE IF TypeThrows(m, e) \/ (e.tags # {} /\ DataThrows(m, e))
         THEN [st EXCEPT !.threw = TRUE]
    ELSE LET a == IF PS \in e.tags
                  THEN PlannerStartBranch(st.paths, st.counts, e)
                  ELSE [paths |-> st.paths, counts |-> st.counts]
         IN  [threw |-> FALSE,
              counts |-> a.counts,
              paths |-> IF ME \in e.tags THEN MoveExecutedBranch(a.paths, e) ELSE a.paths]

RECURSIVE ScanLoop(_, _, _, _)
ScanLoop(st, m, evs, k) ==
    IF k > Len(evs) THEN st
    ELSE ScanLoop(ScanEvent(st, m, evs[k]), m, evs, k + 1)

\* parseJSONEvents (m = "json") or the line parser (m = "text") on evs:
\* [threw, value].
RunParser(m, evs) ==
    LET acc == BuildRobotInfo(m, evs)
    IN  IF acc.threw THEN [threw |-> TRUE, value |-> NullResult]
        ELSE IF acc.info = <<>> THEN [threw |-> FALSE, value |-> NullResult]
        ELSE LET st == ScanLoop([threw |-> FALSE, paths |-> InitialPaths(acc.info),
                                 counts |-> NoCounts], m, evs, 1)
             IN  IF st.threw THEN [threw |-> TRUE, value |-> NullResult]
                 ELSE [threw |-> FALSE,
                       value |-> FramesResult(acc.info, FinalDwell(st.paths), acc.w, acc.h)]

\* What fetchSimulationData resolves to for a body.
BuildFromBody(body) ==
    LET structured == RunParser("json", body.entries)
    IN  IF IsEventList(body) /\ ~structured.threw
        THEN structured.value
        ELSE RunParser("text", SplitLines(body)).value

\* The step-wise run and the function agree.
BuildAgrees ==
    (pc = "done" /\ response.outcome = "ok") => result = BuildFromBody(response.body)

----------------------------------------------------------------------------
(* Properties of the built SimulationData.                                 *)

Built == pc = "done" /\ result.status = "data"

FramePos(i, k) == [x |-> result.frames[i].robots[k].x, y |-> result.frames[i].robots[k].y]

\* Events of the scanned list that name robot id: PLANNER_START events, and
\* MOVE_EXECUTED events with both coordinates.
StartsOf(id) ==
    { k \in 1..Len(events) : PS \in events[k].tags /\ events[k].f.robotId = <<id>> }

MovesOf(id) ==
    { k \in 1..Len(events) :
        /\ ME \in events[k].tags
        /\ events[k].f.robotId = <<id>>
        /\ events[k].f.x # <<>>
        /\ events[k].f.y # <<>> }

\* PLANNER_START events that pass the check of the first loop.
ValidStartsOf(id) == { k \in StartsOf(id) : AllMatched(events[k].f) }

\* C1: the number of frames is the largest path length, and frame i (counted
\* from 0) shows every robot at index i of its own path while the path lasts
\* and at the path's last point afterwards.
FramesFollowPaths ==
    Built =>
        LET n == Len(result.frames)
        IN  /\ \A id \in DOMAIN robotPaths : Len(robotPaths[id]) <= n
            /\ \E id \in DOMAIN robotPaths : Len(robotPaths[id]) = n
            /\ \A i \in 1..n :
                 /\ Len(result.frames[i].robots) = Len(robotInfoMap)
                 /\ \A k \in 1..Len(robotInfoMap) :
                      LET path == robotPaths[robotInfoMap[k].id]
                      IN  FramePos(i, k) =
                            IF i <= Len(path) THEN path[i] ELSE path[Len(path)]

\* Two robots with paths of different length, the shorter one being held.
FramesFollowPathsWitness ==
    /\ Built
    /\ \E a, b \in DOMAIN robotPaths :
          /\ Len(robotPaths[a]) < Len(robotPaths[b])
          /\ robotPaths[a][Len(robotPaths[a])] # robotPaths[a][1]

\* C2: in the second loop a PLANNER_START naming robot A appends 15 copies of
\* A's last point to A's path when an earlier PLANNER_START named A, appends
\* nothing when none did, and leaves every other path as it was.
DwellOnLaterPlannerStart ==
    [][ (/\ pc = "scan"
         /\ pc' = "scan"
         /\ phase = "ps"
         /\ idx <= Len(events)
         /\ PS \in events[idx].tags
         /\ events[idx].f.robotId # <<>>)
        => LET A == events[idx].f.robotId[1]
               earlier == { k \in StartsOf(A) : k < idx }
           IN  /\ DOMAIN robotPaths' = DOMAIN robotPaths
               /\ \A id \in DOMAIN robotPaths :
                    LET old == robotPaths[id]
                    IN  robotPaths'[id] =
                          IF id = A /\ earlier # {}
                          THEN old \o [j \in 1..15 |-> old[Len(old)]]
                          ELSE old ]_vars

\* A second PLANNER_START of a robot has been scanned after one of its moves,
\* with another robot registered.
DwellOnLaterPlannerStartWitness ==
    /\ pc = "scan"
    /\ \E a, b \in DOMAIN robotPaths :
          /\ a # b
          /\ robotTaskCount[a] = 2
          /\ Len(robotPaths[a]) = 17
          /\ robotPaths[a][17] # robotPaths[a][1]

\* C3: with one robot registered, the number of frames is 1 + its moves + 15
\* for each PLANNER_START naming it after the first + 15; a lone PLANNER_START
\* gives 16 frames at the start position, one followed by three moves gives 19.
SingleRobotFrameCount ==
    /\ (Built /\ Len(robotInfoMap) = 1) =>
          LET A == robotInfoMap[1].id
          IN  Len(result.frames) =
                1 + Cardinality(MovesOf(A)) + 15 * (Cardinality(StartsOf(A)) - 1) + 15
    /\ (pc = "done" /\ response.outcome = "ok" /\ events = <<PSA>>) =>
          /\ Len(result.frames) = 16
          /\ \A i \in 1..16 : FramePos(i, 1) = [x |-> 0, y |-> 0]
    /\ (pc = "done" /\ response.outcome = "ok" /\ events = ThreeMoves) =>
          Len(result.frames) = 19

\* One robot, two PLANNER_START events with a move before and a move after
\* the second.
SingleRobotFrameCountWitness ==
    /\ Built
    /\ Len(robotInfoMap) = 1
    /\ LET A == robotInfoMap[1].id
       IN  /\ Cardinality(StartsOf(A)) = 2
           /\ \E k \in MovesOf(A) : \A j \in StartsOf(A) : j < k
           /\ \E k \in MovesOf(A) : \E j \in StartsOf(A) : k < j
           /\ Len(result.frames) = Cardinality(MovesOf(A)) + 31

\* C4: every built SimulationData ends at rest: at least 16 frames, the last
\* at 1500 ms or later, no robot moving within the last 16 frames; and the
\* build returns data whenever a robot was registered.
EndsAtRest ==
    /\ Built =>
          LET n == Len(result.frames)
          IN  /\ n >= 16
              /\ result.frames[n].time >= 1500
              /\ \A i \in (n - 15)..n : \A k \in 1..Len(result.frames[n].robots) :
                    FramePos(i, k) = FramePos(n, k)
    /\ (pc = "done" /\ robotInfoMap # <<>>) => result.status = "data"

\* A robot that moved and then rests, beside a robot with a shorter path.
EndsAtRestWitness ==
    /\ Built
    /\ Len(robotInfoMap) = 2
    /\ \E k \in 1..2 :
          /\ FramePos(Len(result.frames), k) # FramePos(1, k)
          /\ FramePos(Len(result.frames) - 16, k) # FramePos(Len(result.frames), k)

\* C5: every frame lists the registered robots in registration order (the
\* order of their first valid PLANNER_START) with the registered id, name and
\* type, each id once.
AgentSetStable ==
    Built =>
        /\ \A i \in 1..Len(result.frames) :
             LET rs == result.frames[i].robots
             IN  /\ Len(rs) = Len(robotInfoMap)
                 /\ \A k \in 1..Len(rs) :
                      /\ rs[k].id = robotInfoMap[k].id
                      /\ rs[k].name = robotInfoMap[k].name
                      /\ rs[k].type = robotInfoMap[k].type
                 /\ \A k, l \in 1..Len(rs) : rs[k].id = rs[l].id => k = l
        /\ \A k, l \in 1..Len(robotInfoMap) :
             k < l =>
               \E a \in ValidStartsOf(robotInfoMap[k].id) :
                 \A b \in ValidStartsOf(robotInfoMap[l].id) : a < b
        /\ \A id \in RobotIds :
             ValidStartsOf(id) # {} => \E k \in 1..Len(robotInfoMap) : robotInfoMap[k].id = id

\* Two robots, one of which has stopped before the last frame while the other
\* still moved.
AgentSetStableWitness ==
    /\ Built
    /\ Len(robotInfoMap) = 2
    /\ robotInfoMap[1].type # robotInfoMap[2].type
    /\ Len(robotPaths[robotInfoMap[1].id]) # Len(robotPaths[robotInfoMap[2].id])

\* C6: frame i (counted from 0) has time i * 100: the first frame is at 0 and
\* the times increase strictly.
FrameTimesIncrease ==
    Built =>
        /\ result.frames[1].time = 0
        /\ \A i \in 1..Len(result.frames) : result.frames[i].time = (i - 1) * 100
        /\ \A i \in 1..(Len(result.frames) - 1) :
             result.frames[i].time < result.frames[i + 1].time

\* A built result with a dwell run between two tasks.
FrameTimesIncreaseWitness ==
    /\ Built
    /\ Len(result.frames) > 31
    /\ result.frames[Len(result.frames)].time > 3000

\* C7 as stated: with 5 moves of A and 2 of B, the frame count is the larger
\* path length, and in every frame after B's path has ended B is at its last
\* position while A's position still changes.
FiveAndTwoStillAdvancing ==
    (pc = "done" /\ response.outcome = "ok" /\ events \in FiveAndTwo) =>
        LET n == Len(result.frames)
            lenA == Len(robotPaths["r1"])
            lenB == Len(robotPaths["r2"])
        IN  /\ n = Max(lenA, lenB)
            /\ \A i \in (lenB + 1)..n :
                 /\ FramePos(i, 2) = robotPaths["r2"][lenB]
                 /\ FramePos(i, 1) # FramePos(i - 1, 1)

\* C7, amended: there are 21 frames; B's path ends after frame 17 and frames
\* 18 to 20 show B at its last position, but A is at rest there too, inside its
\* own final dwell: A's position changes in frames 1 to 5 only, and B is at its
\* last position from frame 2 on.  (Frames counted from 0.)
FiveAndTwoBothAtRest ==
    (pc = "done" /\ response.outcome = "ok" /\ events \in FiveAndTwo) =>
        /\ Len(result.frames) = 21
        /\ Len(robotPaths["r1"]) = 21
        /\ Len(robotPaths["r2"]) = 18
        /\ \A i \in 19..21 :
             /\ FramePos(i, 2) = [x |-> 4, y |-> 2]
             /\ FramePos(i, 1) = FramePos(i - 1, 1)
        /\ \A i \in 2..6 : FramePos(i, 1) # FramePos(i - 1, 1)
        /\ \A i \in 7..21 : FramePos(i, 1) = [x |-> 5, y |-> 5]
        /\ \A i \in 3..21 : FramePos(i, 2) = [x |-> 4, y |-> 2]

\* The two-robot log has been built, B's moves coming last in the log.
FiveAndTwoBothAtRestWitness ==
    /\ Built
    /\ events \in FiveAndTwo
    /\ events[Len(events)] = MoveB(2)
    /\ Len(result.frames) = 21

RemoveAt(seq, k) == [j \in 1..(Len(seq) - 1) |-> IF j < k THEN seq[j] ELSE seq[j + 1]]

\* C8 as stated: the build returns null exactly when the log holds no
\* PLANNER_START carrying robotId, robotName, start and map.
NullIffNoValidStart ==
    (pc = "done" /\ response.outcome = "ok") =>
        LET es == response.body.entries
        IN  (result.status = "null")
              <=> ~\E k \in 1..Len(es) :
                     /\ PS \in es[k].tags
                     /\ es[k].shape = "ok"
                     /\ AllMatched(es[k].f)

\* C9: whatever the fetch gives, the promise resolves to null or to a
\* SimulationData, and no position of the function is left without a next step.
NeverThrows ==
    /\ pc = "done" => result.status \in {"null", "data"}
    /\ pc # "done" => ENABLED Next

\* The second loop of parseJSONEvents threw and the call still ended in null.
NeverThrowsWitness ==
    /\ pc = "done"
    /\ caught = "inner"
    /\ IsEventList(response.body)
    /\ \E k \in 1..Len(response.body.entries) :
          /\ response.body.entries[k].shape = "ok"
          /\ PS \in response.body.entries[k].tags
          /\ AllMatched(response.body.entries[k].f)
    /\ result.status = "null"

\* C10 as stated: a PLANNER_START that names a robotId but lacks a required
\* field is dropped: the result is the one built from the log without it.
InvalidStartDropped ==
    (pc = "done" /\ response.outcome = "ok") =>
        LET body == response.body
        IN  \A k \in 1..Len(body.entries) :
              (/\ PS \in body.entries[k].tags
               /\ body.entries[k].shape = "ok"
               /\ body.entries[k].f.robotId # <<>>
               /\ ~AllMatched(body.entries[k].f))
              => result = BuildFromBody([body EXCEPT !.entries = RemoveAt(@, k)])

\* C11 as stated: a malformed element of a structured list (null, or a
\* PLANNER_START / MOVE_EXECUTED record whose data is missing or not a string)
\* is dropped alone: the result is the one built from the list without it.
MalformedElementDropped ==
    (pc = "done" /\ response.outcome = "ok" /\ IsEventList(response.body)) =>
        LET body == response.body
        IN  \A k \in 1..Len(body.entries) :
              body.entries[k].shape \in {"null", "nodata"}
              => result = BuildFromBody([body EXCEPT !.entries = RemoveAt(@, k)])

\* Ids registered by the first loop over the entries of a body.
RegisteredIn(body) ==
    { body.entries[j].f.robotId[1] :
        j \in { i \in 1..Len(body.entries) :
                  /\ PS \in body.entries[i].tags
                  /\ body.entries[i].shape = "ok"
                  /\ AllMatched(body.entries[i].f) } }

\* A MOVE_EXECUTED with a data string that lacks robotId, x or y, or names a
\* robot no PLANNER_START of the log registers.
Unattributable(body, k) ==
    LET e == body.entries[k]
    IN  /\ e.shape = "ok"
        /\ e.tags = {ME}
        /\ \/ e.f.robotId = <<>>
           \/ e.f.x = <<>>
           \/ e.f.y = <<>>
           \/ e.f.robotId[1] \notin RegisteredIn(body)

IsOtherKind(body, k) ==
    /\ body.entries[k].tags = {}
    /\ body.entries[k].shape \in {"ok", "nodata"}

OneRecordPerRobot ==
    Built =>
        LET robots == result.frames[1].robots
        IN  /\ \A j, k \in 1..Len(robots) : robots[j].id = robots[k].id => j = k
            /\ { robots[k].id : k \in 1..Len(robots) }
                 = { id \in RobotIds : ValidStartsOf(id) # {} }
            /\ \A k \in 1..Len(robots) :
                 LET first == SetMin(ValidStartsOf(robots[k].id))
                     f == events[first].f
                 IN  /\ robots[k].name = f.robotName[1]
                     /\ robots[k].type = RobotType(f.robotName[1])
                     /\ <<robots[k].x, robots[k].y>> = f.start

\* A move of r1 comes first, then two complete PLANNER_START of r1 with
\* different start positions; frame 0 shows the start of the earlier one.
OneRecordPerRobotWitness ==
    /\ Built
    /\ 1 \in MovesOf("r1")
    /\ ValidStartsOf("r1") = {2, 3}
    /\ events[2].f.start # events[3].f.start
    /\ Len(result.frames[1].robots) = 1
    /\ <<result.frames[1].robots[1].x, result.frames[1].robots[1].y>> = events[2].f.start

\* The type names a well-formed record of a structured list can have, given
\* the branches it takes.
KindsOf(e) == IF e.tags = {} THEN OtherKinds ELSE e.tags

\* Kind names in which a marker occurs only as the whole name.
PlainKinds == {PS, ME, "PATH"}

\* The text logs that encode the events of a structured list, one line per
\* event: the kind tag (among kinds) followed by the same data.
RECURSIVE TextLogs(_, _)
TextLogs(es, kinds) ==
    IF es = <<>> THEN {<<>>}
    ELSE { <<WireEntry("text", kind, es[1].f)>> \o rest :
             kind \in KindsOf(es[1]) \cap kinds,
             rest \in TextLogs(Tail(es), kinds) }

WellFormed(es) == \A k \in 1..Len(es) : es[k].shape = "ok"

\* The results of a structured list under its other root and as text lines
\* with kind tags among kinds.
OtherEncodings(body, kinds) ==
    { BuildFromBody(Body("json", r, body.entries)) : r \in {"events", "array"} }
    \cup { BuildFromBody(Body("text", "none", ls)) : ls \in TextLogs(body.entries, kinds) }

\* C15 as stated: for any sequence of well-formed events, the structured list
\* (under either root) and the text lines with the same kind tags and data
\* give the same result.
WireFormatsAgree ==
    (pc = "done" /\ response.outcome = "ok" /\ IsEventList(response.body)
       /\ WellFormed(response.body.entries))
    => \A r \in OtherEncodings(response.body, PlainKinds \cup OtherKinds) : r = result

\* C15, amended: the same, for events whose kind name contains PLANNER_START
\* or MOVE_EXECUTED only as the whole name.
WireFormatsAgreeOnPlainKinds ==
    (pc = "done" /\ response.outcome = "ok" /\ IsEventList(response.body)
       /\ WellFormed(response.body.entries))
    => \A r \in OtherEncodings(response.body, PlainKinds) : r = result

\* A structured list with a PLANNER_START, an attributed move and an event of
\* another kind was built, and its text encoding gives the same frames.
WireFormatsAgreeOnPlainKindsWitness ==
    /\ Built
    /\ IsEventList(response.body)
    /\ Len(events) = 3
    /\ \E k \in 1..3 : events[k].tags = {}
    /\ MovesOf("r1") # {}
    /\ Len(result.frames) = 17
    /\ \E ls \in TextLogs(events, PlainKinds) :
          BuildFromBody(Body("text", "none", ls)) = result

----------------------------------------------------------------------------
(* SimulationPlayer: the frames it is given and interpolateRobots.  Times  *)
(* are in ms; a position the function computes is a fraction [num, den],   *)
(* den > 0, so that robot.x + (afterRobot.x - robot.x) * t is exact.       *)

\* Longest frame list given to the player.
MaxFrames == 3

\* Times at which interpolateRobots is looked at: this many per frame interval.
ProbesPerFrame == 4

Robot(id, name, type, x, y) == [id |-> id, name |-> name, type |-> type, x |-> x, y |-> y]

Positions == {<<0, 0>>, <<1, 1>>, <<1, 3>>}

\* Frames of one rover that stands at path[i] in frame i - 1.
FramesOfPath(path) ==
    [i \in 1..Len(path) |->
        [time |-> FrameTime(i - 1),
         robots |-> <<Robot("r1", "Rover", "rover", path[i][1], path[i][2])>>]]

\* Three frames of a rover and a drone.
TwoRobotFrames ==
    << [time |-> FrameTime(0),
        robots |-> <<Robot("r1", "Rover", "rover", 0, 0), Robot("r2", "Sky DRONE", "drone", 5, 5)>>],
       [time |-> FrameTime(1),
        robots |-> <<Robot("r1", "Rover", "rover", 1, 1), Robot("r2", "Sky DRONE", "drone", 4, 5)>>],
       [time |-> FrameTime(2),
        robots |-> <<Robot("r1", "Rover", "rover", 1, 3), Robot("r2", "Sky DRONE", "drone", 4, 5)>>] >>

FrameLists ==
    { FramesOfPath(p) : p \in UNION { [1..n -> Positions] : n \in 1..MaxFrames } }
    \cup {TwoRobotFrames}

Rat(n, d) == [num |-> n, den |-> d]

\* The robots of a frame as the function returns them unchanged.
Verbatim(robots) ==
    [k \in 1..Len(robots) |-> [robots[k] EXCEPT !.x = Rat(@, 1), !.y = Rat(@, 1)]]

\* simulationData.frames[simulationData.frames.length - 1].time
maxTime == simulationData.frames[Len(simulationData.frames)].time

\* The for loop: the first i with frames[i].time <= time <= frames[i + 1].time,
\* and frames[0], frames[1] when the loop never breaks (1-based here).
BracketIndex(t) ==
    LET frames == simulationData.frames
        found == { i \in 1..(Len(frames) - 1) :
                     frames[i].time <= t /\ frames[i + 1].time >= t }
    IN  IF found = {} THEN 1 ELSE SetMin(found)

\* Mutation: the position of the before frame, no interpolation.
LerpNone(a, b, elapsed, totalDuration) == Rat(a, 1)

\* a + (b - a) * t with t = totalDuration > 0 ? elapsed / totalDuration : 0
Lerp(a, b, elapsed, totalDuration) ==
    IF totalDuration > 0
    THEN Rat(a * totalDuration + (b - a) * elapsed, totalDuration)
    ELSE Rat(a, 1)

\* Mutation: at and after the last frame time the first frame is returned.
interpolateRobotsFirstAtEnd(t) ==
    LET frames == simulationData.frames
    IN  IF t >= maxTime THEN Verbatim(frames[1].robots)
        ELSE IF t <= 0 THEN Verbatim(frames[1].robots)
        ELSE LET i == BracketIndex(t)
                 beforeFrame == frames[i]
                 afterFrame == frames[i + 1]
                 totalDuration == afterFrame.time - beforeFrame.time
                 elapsed == t - beforeFrame.time
             IN  [k \in 1..Len(beforeFrame.robots) |->
                    [beforeFrame.robots[k] EXCEPT
                       !.x = Lerp(@, afterFrame.robots[k].x, elapsed, totalDuration),
                       !.y = Lerp(@, afterFrame.robots[k].y, elapsed, totalDuration)]]

interpolateRobots(t) ==
    LET frames == simulationData.frames
    IN  IF t >= maxTime THEN Verbatim(frames[Len(frames)].robots)
        ELSE IF t <= 0 THEN Verbatim(frames[1].robots)
        ELSE LET i == BracketIndex(t)
                 beforeFrame == frames[i]
                 afterFrame == frames[i + 1]
                 totalDuration == afterFrame.time - beforeFrame.time
                 elapsed == t - beforeFrame.time
             IN  [k \in 1..Len(beforeFrame.robots) |->
                    [beforeFrame.robots[k] EXCEPT
                       !.x = Lerp(@, afterFrame.robots[k].x, elapsed, totalDuration),
                       !.y = Lerp(@, afterFrame.robots[k].y, elapsed, totalDuration)]]

\* Times from one frame interval before the first frame to one after the last.
ProbeTimes ==
    { k * (frameInterval \div ProbesPerFrame) :
        k \in (0 - ProbesPerFrame)..(Len(simulationData.frames) * ProbesPerFrame) }

\* interpolateRobots on its own: any frame list, any probe time.
PoseInit ==
    /\ FetchNotStarted
    /\ NoEngine
    /\ simulationData \in { [frames |-> f] : f \in FrameLists }
    /\ time = 0
    /\ pose = <<>>
    /\ trail = <<>>

Interpolate ==
    /\ \E t \in ProbeTimes :
          /\ time' = t
          /\ pose' = interpolateRobots(t)
    /\ UNCHANGED <<builderVars, simulationData, trail, engineVars>>

PoseNext == Interpolate

PoseSpec == PoseInit /\ [][PoseNext]_vars

----------------------------------------------------------------------------
(* SimulationPlayer: the playback state, its handlers and the animation    *)
(* frame callback.  A handler, or the callback, is one step together with  *)
(* the render it causes: when isPlaying, speed or currentTime changed, the *)
(* effect's cleanup and the effect run before anything else does.  The     *)
(* clock counts ms from the mount; performance.now() itself is large       *)
(* enough for startTimeRef.current to be a positive number whenever it is  *)
(* not null.                                                               *)

\* performance.now() and the frame timestamps are multiples of ClockStep.
ClockStep == frameInterval \div 2

\* The clock stops at MaxClock * ClockStep.
MaxClock == 3

\* The speed buttons [0.5, 1, 1.5, 2], in halves.
Speeds == {1, 2, 3, 4}

\* Frame lists the engine is run on: a single frame, and three frames.
PlayerData == { [frames |-> FramesOfPath(<< <<0, 0>> >>)], [frames |-> TwoRobotFrames] }

\* Values the range input (min 0, max maxTime) delivers.
SliderValues == { k * ClockStep : k \in 0..(maxTime \div ClockStep) }

\* animationRef.current = requestAnimationFrame(animate)
RequestFrame(q, s, p) ==
    [k \in 1..Len(q) |-> [q[k] EXCEPT !.ref = FALSE]]
    \o <<[speed |-> s, isPlaying |-> p, ref |-> TRUE]>>

\* if (animationRef.current) cancelAnimationFrame(animationRef.current)
CancelFrame(q) == SelectSeq(q, LAMBDA c : ~c.ref)

\* performance.now() - currentTime / speed
Baseline(at, t, s) == <<[at |-> at, time |-> t, speed |-> s]>>

\* Mutation: the baseline is performance.now() alone, without
\* - currentTime / speed.
ElapsedSinceEffect(timestamp, start, s) == ((timestamp - start.at) * s) \div 2

\* (timestamp - startTimeRef.current) * speed, for the closure's speed s.
Elapsed(timestamp, start, s) ==
    ((timestamp - start.at) * s) \div 2 + (start.time * s) \div start.speed

\* Mutation: the effect without its cleanup.
EffectNoCleanup(p, t, s, ref, q, d) ==
    IF p
    THEN [ref |-> Baseline(now, t, s), q |-> RequestFrame(q, s, p), d |-> d]
    ELSE [ref |-> ref, q |-> q, d |-> t]

\* The effect's cleanup followed by the effect, for the rendered isPlaying p,
\* currentTime t and speed s: [ref, q, d] are startTimeRef, the callbacks
\* and the drawn time after it.
Effect(p, t, s, ref, q, d) ==
    IF p
    THEN [ref |-> Baseline(now, t, s), q |-> RequestFrame(CancelFrame(q), s, p), d |-> d]
    ELSE [ref |-> ref, q |-> CancelFrame(q), d |-> t]

\* The state after a handler set isPlaying, currentTime and speed to p, t, s
\* and left startTimeRef, the callbacks and the drawn time at ref, q, d:
\* React renders, and the effect runs, only if one of the three changed.
Commit(p, t, s, ref, q, d) ==
    LET e == IF <<p, t, s>> = <<isPlaying, currentTime, speed>>
             THEN [ref |-> ref, q |-> q, d |-> d]
             ELSE Effect(p, t, s, ref, q, d)
    IN  /\ isPlaying' = p
        /\ currentTime' = t
        /\ speed' = s
        /\ startTimeRef' = e.ref
        /\ frameCallbacks' = e.q
        /\ drawnTime' = e.d

Op(op, arg) == [op |-> op, arg |-> arg, at |-> now]

\* The component is mounted with one of the frame lists; its first effect
\* has drawn time 0.
PlayerInit ==
    /\ FetchNotStarted
    /\ simulationData \in PlayerData
    /\ time = 0
    /\ pose = <<>>
    /\ trail = <<>>
    /\ mounted = TRUE
    /\ isPlaying = FALSE
    /\ currentTime = 0
    /\ speed = 2
    /\ startTimeRef = <<>>
    /\ frameCallbacks = <<>>
    /\ now = 0
    /\ lastTimestamp = 0 - ClockStep
    /\ drawnTime = 0
    /\ lastOp = Op("mount", 0)

\* Mutation: the handler without the restart from 0 at the end.
handlePlayPauseNoRestart ==
    /\ mounted
    /\ Commit(~isPlaying, currentTime, speed, startTimeRef, frameCallbacks, drawnTime)
    /\ lastOp' = Op("playPause", 0)
    /\ UNCHANGED <<builderVars, simulationData, poseVars, mounted, now, lastTimestamp>>

handlePlayPause ==
    /\ mounted
    /\ IF currentTime >= maxTime
       THEN Commit(~isPlaying, 0, speed, <<>>, frameCallbacks, drawnTime)
       ELSE Commit(~isPlaying, currentTime, speed, startTimeRef, frameCallbacks, drawnTime)
    /\ lastOp' = Op("playPause", 0)
    /\ UNCHANGED <<builderVars, simulationData, poseVars, mounted, now, lastTimestamp>>

\* Mutation: the handler without startTimeRef.current = null.
handleResetKeepsBaseline ==
    /\ mounted
    /\ Commit(FALSE, 0, speed, startTimeRef, frameCallbacks, 0)
    /\ lastOp' = Op("reset", 0)
    /\ UNCHANGED <<builderVars, simulationData, poseVars, mounted, now, lastTimestamp>>

handleReset ==
    /\ mounted
    /\ Commit(FALSE, 0, speed, <<>>, frameCallbacks, 0)
    /\ lastOp' = Op("reset", 0)
    /\ UNCHANGED <<builderVars, simulationData, poseVars, mounted, now, lastTimestamp>>

\* Mutation: the handler also calls setIsPlaying(false).
handleSeekPauses(newTime) ==
    /\ mounted
    /\ Commit(FALSE, newTime, speed, <<>>, frameCallbacks, newTime)
    /\ lastOp' = Op("seek", newTime)
    /\ UNCHANGED <<builderVars, simulationData, poseVars, mounted, now, lastTimestamp>>

\* newTime = parseFloat(e.target.value)
handleSeek(newTime) ==
    /\ mounted
    /\ Commit(isPlaying, newTime, speed, <<>>, frameCallbacks,
              IF isPlaying THEN drawnTime ELSE newTime)
    /\ lastOp' = Op("seek", newTime)
    /\ UNCHANGED <<builderVars, simulationData, poseVars, mounted, now, lastTimestamp>>

\* Mutation: the effect does not run again for the new speed.
SetSpeedKeepsBaseline(s) ==
    /\ mounted
    /\ speed' = s
    /\ lastOp' = Op("speed", s)
    /\ UNCHANGED <<builderVars, simulationData, poseVars, mounted, now, lastTimestamp,
                   isPlaying, currentTime, startTimeRef, frameCallbacks, drawnTime>>

\* onClick={() => setSpeed(s)}
SetSpeed(s) ==
    /\ mounted
    /\ Commit(isPlaying, currentTime, s, startTimeRef, frameCallbacks, drawnTime)
    /\ lastOp' = Op("speed", s)
    /\ UNCHANGED <<builderVars, simulationData, poseVars, mounted, now, lastTimestamp>>

\* Mutation: the callback without its else branch, setIsPlaying(false).
animateNeverEnds(timestamp) ==
    /\ frameCallbacks # <<>>
    /\ timestamp > lastTimestamp
    /\ LET c == Head(frameCallbacks)
           start == IF startTimeRef = <<>>
                    THEN [at |-> timestamp, time |-> 0, speed |-> c.speed]
                    ELSE startTimeRef[1]
           elapsed == Elapsed(timestamp, start, c.speed)
           newTime == Min(elapsed, maxTime)
           again == newTime < maxTime /\ c.isPlaying
           q == IF again
                THEN RequestFrame(Tail(frameCallbacks), c.speed, c.isPlaying)
                ELSE Tail(frameCallbacks)
       IN  Commit(isPlaying, newTime, speed, <<start>>, q, newTime)
    /\ lastTimestamp' = timestamp
    /\ lastOp' = Op("tick", timestamp)
    /\ UNCHANGED <<builderVars, simulationData, poseVars, mounted, now>>

\* The browser runs the oldest callback with a frame timestamp: later than
\* the last one, and at most one clock step before performance.now().
animate(timestamp) ==
    /\ frameCallbacks # <<>>
    /\ timestamp > lastTimestamp
    /\ LET c == Head(frameCallbacks)
           start == IF startTimeRef = <<>>
                    THEN [at |-> timestamp, time |-> 0, speed |-> c.speed]
                    ELSE startTimeRef[1]
           elapsed == Elapsed(timestamp, start, c.speed)
           newTime == Min(elapsed, maxTime)
           again == newTime < maxTime /\ c.isPlaying
           q == IF again
                THEN RequestFrame(Tail(frameCallbacks), c.speed, c.isPlaying)
                ELSE Tail(frameCallbacks)
           p == IF ~again /\ newTime >= maxTime THEN FALSE ELSE isPlaying
       IN  Commit(p, newTime, speed, <<start>>, q, newTime)
    /\ lastTimestamp' = timestamp
    /\ lastOp' = Op("tick", timestamp)
    /\ UNCHANGED <<builderVars, simulationData, poseVars, mounted, now>>

\* A dependency of the effect other than the three states changes (the map
\* image loads, the parent passes new props): cleanup and effect run again.
\* lastOp.arg is 1 if nothing but animation frames and such changes ran
\* since the last animation frame of the Running engine.
DependencyChanges ==
    /\ mounted
    /\ LET e == Effect(isPlaying, currentTime, speed, startTimeRef, frameCallbacks, drawnTime)
       IN  /\ startTimeRef' = e.ref
           /\ frameCallbacks' = e.q
           /\ drawnTime' = e.d
    /\ lastOp' = Op("rerender",
                    IF isPlaying /\ (lastOp.op = "tick" \/ (lastOp.op = "rerender" /\ lastOp.arg = 1))
                    THEN 1 ELSE 0)
    /\ UNCHANGED <<builderVars, simulationData, poseVars, mounted, isPlaying, currentTime,
                   speed, now, lastTimestamp>>

\* Mutation: unmounting without the cleanup.
UnmountLeaks ==
    /\ mounted
    /\ mounted' = FALSE
    /\ lastOp' = Op("unmount", 0)
    /\ UNCHANGED <<builderVars, simulationData, poseVars, isPlaying, currentTime, speed,
                   startTimeRef, frameCallbacks, now, lastTimestamp, drawnTime>>

\* The component unmounts: the last cleanup runs.
Unmount ==
    /\ mounted
    /\ mounted' = FALSE
    /\ frameCallbacks' = CancelFrame(frameCallbacks)
    /\ lastOp' = Op("unmount", 0)
    /\ UNCHANGED <<builderVars, simulationData, poseVars, isPlaying, currentTime, speed,
                   startTimeRef, now, lastTimestamp, drawnTime>>

\* Time passes.
Pass ==
    /\ now < MaxClock * ClockStep
    /\ now' = now + ClockStep
    /\ UNCHANGED <<builderVars, simulationData, poseVars, mounted, isPlaying, currentTime,
                   speed, startTimeRef, frameCallbacks, lastTimestamp, drawnTime, lastOp>>

Seek == \E newTime \in SliderValues : handleSeek(newTime)

SpeedButton == \E s \in Speeds : SetSpeed(s)

AnimationFrame == \E timestamp \in {now - ClockStep, now} : animate(timestamp)

PlayerNext ==
    \/ handlePlayPause
    \/ handleReset
    \/ Seek
    \/ SpeedButton
    \/ AnimationFrame
    \/ DependencyChanges
    \/ Unmount
    \/ Pass

PlayerSpec == PlayerInit /\ [][PlayerNext]_vars

PlayerTypeOK ==
    /\ mounted \in BOOLEAN
    /\ isPlaying \in BOOLEAN
    /\ speed \in Speeds
    /\ currentTime <= maxTime
    /\ Len(startTimeRef) <= 1
    /\ Len(frameCallbacks) <= 1
    /\ \A k \in 1..Len(frameCallbacks) :
          /\ frameCallbacks[k].ref
          /\ frameCallbacks[k].isPlaying
          /\ startTimeRef # <<>> => startTimeRef[1].speed = frameCallbacks[k].speed

----------------------------------------------------------------------------
(* SimulationPlayer: uninterrupted playback.  The user picks a speed and   *)
(* starts playback; from then on only animation frames run.  The browser   *)
(* runs a requested callback in every frame: the clock does not move on    *)
(* by a step while a callback that is due has not run, and it runs again   *)
(* and again.                                                              *)

\* The clock of uninterrupted playback stops at MaxPlaybackClock * ClockStep.
MaxPlaybackClock == 17

Play == ~isPlaying /\ handlePlayPause

IdleSpeedButton == ~isPlaying /\ SpeedButton

\* Time passes by one frame; a requested callback has run with the
\* timestamp of the current frame or of the one before.
FramePass ==
    /\ now < MaxPlaybackClock * ClockStep
    /\ frameCallbacks # <<>> => lastTimestamp >= now - ClockStep
    /\ now' = now + ClockStep
    /\ UNCHANGED <<builderVars, simulationData, poseVars, mounted, isPlaying, currentTime,
                   speed, startTimeRef, frameCallbacks, lastTimestamp, drawnTime, lastOp>>

PlaybackNext ==
    \/ Play
    \/ IdleSpeedButton
    \/ AnimationFrame
    \/ FramePass

PlaybackSpec ==
    /\ PlayerInit
    /\ [][PlaybackNext]_vars
    /\ WF_vars(AnimationFrame)
    /\ WF_vars(FramePass)

----------------------------------------------------------------------------
(* SimulationPlayer: the trail loop of draw.                               *)

\* const trailLength = 1500; const trailStep = 100; in ms
trailLength == 1500
trailStep == 100

\* The longest frame list drawn has MaxDrawFrames frames.
MaxDrawFrames == 18

\* A rover that goes up and down a line, one cell per frame.
LongFrames ==
    FramesOfPath([i \in 1..MaxDrawFrames |-> <<0, IF i % 4 = 0 THEN 1 ELSE i % 4>>])

\* Times draw is called with: the times the engine computes, which are
\* multiples of half a clock step from one clock step before 0 to the
\* duration.
DrawTimes == { k * (ClockStep \div 2) : k \in (0 - 2)..(maxTime \div (ClockStep \div 2)) }

\* for (let t = Math.max(0, time - trailLength); t <= time; t += trailStep)
RECURSIVE TrailFrom(_, _)
TrailFrom(t, T) ==
    IF t <= T THEN <<t>> \o TrailFrom(t + trailStep, T) ELSE <<>>

TrailTimes(T) == TrailFrom(Max(0, T - trailLength), T)

\* What the loop passes to moveTo and lineTo for the robot at each index:
\* interpolateRobots(t)[index], for each t in turn.
TrailSamples(T) ==
    LET ts == TrailTimes(T)
    IN  [k \in 1..Len(ts) |-> [t |-> ts[k], robots |-> interpolateRobots(ts[k])]]

DrawInit ==
    /\ FetchNotStarted
    /\ NoEngine
    /\ simulationData \in { [frames |-> f] : f \in FrameLists \cup {LongFrames} }
    /\ time = 0
    /\ pose = <<>>
    /\ trail = <<>>

draw ==
    /\ \E T \in DrawTimes : trail' = <<[time |-> T, samples |-> TrailSamples(T)]>>
    /\ UNCHANGED <<builderVars, simulationData, time, pose, engineVars>>

DrawNext == draw

DrawSpec == DrawInit /\ [][DrawNext]_vars

----------------------------------------------------------------------------
(* Properties of interpolateRobots.                                        *)

\* C16: at or before the first frame's time the function returns the robots
\* of the first frame, at or after the last frame's time those of the last
\* frame, for every frame list, a single frame included.
ClampsOutsideFrames ==
    pose # <<>> =>
        LET frames == simulationData.frames
        IN  /\ time <= frames[1].time => pose = Verbatim(frames[1].robots)
            /\ time >= frames[Len(frames)].time
                 => pose = Verbatim(frames[Len(frames)].robots)

\* Three frames that end away from where they start, asked beyond the last
\* frame time.
ClampsOutsideFramesWitness ==
    /\ simulationData.frames = TwoRobotFrames
    /\ time > maxTime
    /\ pose = Verbatim(TwoRobotFrames[3].robots)
    /\ pose # Verbatim(TwoRobotFrames[1].robots)

\* Order and equality of fractions with positive denominators.
RatEq(a, b) == a.num * b.den = b.num * a.den
RatLeq(a, b) == a.num * b.den <= b.num * a.den

\* a + (b - a) * (t - ta) / (tb - ta), written from the statement.
Between(a, b, t, ta, tb) == Rat(a * (tb - ta) + (b - a) * (t - ta), tb - ta)

\* C17: strictly inside the duration, for every pair of frames i, i + 1 whose
\* times bracket the time, each robot has the id, name and type it has in
\* frame i and the position linearly interpolated between the two frames,
\* which lies between the two frames' values; at a frame's own time that is
\* the frame's position and half way between two frames it is their mean.
InterpolatesBetweenFrames ==
    (pose # <<>> /\ 0 < time /\ time < maxTime) =>
        LET frames == simulationData.frames
        IN  \A i \in 1..(Len(frames) - 1) :
              (frames[i].time <= time /\ time <= frames[i + 1].time) =>
                 /\ Len(pose) = Len(frames[i].robots)
                 /\ \A k \in 1..Len(pose) :
                      LET p0 == frames[i].robots[k]
                          p1 == frames[i + 1].robots[k]
                          ta == frames[i].time
                          tb == frames[i + 1].time
                      IN  /\ pose[k].id = p0.id
                          /\ pose[k].name = p0.name
                          /\ pose[k].type = p0.type
                          /\ RatEq(pose[k].x, Between(p0.x, p1.x, time, ta, tb))
                          /\ RatEq(pose[k].y, Between(p0.y, p1.y, time, ta, tb))
                          /\ RatLeq(Rat(Min(p0.x, p1.x), 1), pose[k].x)
                          /\ RatLeq(pose[k].x, Rat(Max(p0.x, p1.x), 1))
                          /\ RatLeq(Rat(Min(p0.y, p1.y), 1), pose[k].y)
                          /\ RatLeq(pose[k].y, Rat(Max(p0.y, p1.y), 1))
                          /\ time = ta => (RatEq(pose[k].x, Rat(p0.x, 1)) /\ RatEq(pose[k].y, Rat(p0.y, 1)))
                          /\ time = tb => (RatEq(pose[k].x, Rat(p1.x, 1)) /\ RatEq(pose[k].y, Rat(p1.y, 1)))
                          /\ 2 * time = ta + tb =>
                               (/\ RatEq(pose[k].x, Rat(p0.x + p1.x, 2))
                                /\ RatEq(pose[k].y, Rat(p0.y + p1.y, 2)))

\* Frames (0,0) at 0 ms and (1,1) at 100 ms, asked at 50 ms: (0.5, 0.5).
InterpolatesBetweenFramesWitness ==
    /\ simulationData.frames = FramesOfPath(<< <<0, 0>>, <<1, 1>> >>)
    /\ time = 50
    /\ Len(pose) = 1
    /\ RatEq(pose[1].x, Rat(1, 2))
    /\ RatEq(pose[1].y, Rat(1, 2))

----------------------------------------------------------------------------
(* Properties of the playback state.                                       *)

ClampTime(t) == Max(0, Min(t, maxTime))

\* C18 as stated: in every reachable state 0 <= currentTime <= duration,
\* whatever timestamps the animation frames carry.
TimeWithinDuration == 0 <= currentTime /\ currentTime <= maxTime

\* C19 as stated: after seek(t), from Idle or from Running, the engine is
\* Idle and currentTime is t clamped to [0, duration].
SeekLeavesIdle ==
    lastOp.op = "seek" => (~isPlaying /\ currentTime = ClampTime(lastOp.arg))

\* C19, amended: seek(t) sets currentTime to t clamped to [0, duration] and
\* leaves the engine in the state it was in, Idle or Running.
SeekKeepsPlayState ==
    [][lastOp'.op = "seek" =>
          (isPlaying' = isPlaying /\ currentTime' = ClampTime(lastOp'.arg))]_vars

\* The last step was a seek to a later time while Running; the engine still
\* runs, at that time.
SeekKeepsPlayStateWitness ==
    /\ lastOp.op = "seek"
    /\ isPlaying
    /\ lastOp.arg > 0
    /\ currentTime = lastOp.arg
    /\ frameCallbacks # <<>>

\* C20 as stated: the first animation frame after a seek(t) made while
\* Running, with a timestamp not before the seek, computes a time that
\* continues from t: at least t and at most t plus the time passed since the
\* seek scaled by the speed (both capped by the duration), never 0 or the
\* time before the seek, also when t is the current time.
SeekNotLost ==
    [][(/\ lastOp.op = "seek"
        /\ isPlaying
        /\ lastOp'.op = "tick"
        /\ lastTimestamp' >= lastOp.at) =>
          /\ currentTime' >= Min(lastOp.arg, maxTime)
          /\ currentTime' <= Min(lastOp.arg + ((now' - lastOp.at) * speed) \div 2, maxTime)]_vars

\* C21: play from Idle leaves the engine Running with a frame requested; a
\* currentTime at or past the duration is first set to 0, any other
\* currentTime is kept, and the baseline is now - currentTime / speed for
\* that currentTime.
PlayStartsOrRestarts ==
    [][(handlePlayPause /\ ~isPlaying) =>
          /\ isPlaying'
          /\ currentTime' = (IF currentTime >= maxTime THEN 0 ELSE currentTime)
          /\ speed' = speed
          /\ startTimeRef' = Baseline(now, currentTime', speed)
          /\ Len(frameCallbacks') = 1]_vars

\* The engine was Idle at the end of three frames and play was clicked: it
\* runs from 0.
PlayStartsOrRestartsWitness ==
    /\ lastOp.op = "playPause"
    /\ isPlaying
    /\ maxTime > 0
    /\ drawnTime = maxTime
    /\ currentTime = 0
    /\ startTimeRef = Baseline(now, 0, speed)

\* Play was clicked in the middle of three frames: it runs from there.
PlayResumesWitness ==
    /\ lastOp.op = "playPause"
    /\ isPlaying
    /\ 0 < currentTime
    /\ currentTime < maxTime
    /\ startTimeRef = Baseline(now, currentTime, speed)

\* C22: an animation frame of a Running engine that computes the duration
\* leaves the engine Idle at the duration with no frame requested; one that
\* computes an earlier time leaves it Running with one frame requested.
TickEndsOrContinues ==
    [][(AnimationFrame /\ isPlaying) =>
          /\ currentTime' >= maxTime =>
                (~isPlaying' /\ currentTime' = maxTime /\ frameCallbacks' = <<>>)
          /\ currentTime' < maxTime =>
                (isPlaying' /\ Len(frameCallbacks') = 1)]_vars

\* The last animation frame of three frames: Idle at 200 ms, nothing pending.
TickEndsOrContinuesWitness ==
    /\ lastOp.op = "tick"
    /\ maxTime > 0
    /\ currentTime = maxTime
    /\ drawnTime = maxTime
    /\ ~isPlaying
    /\ frameCallbacks = <<>>

\* An animation frame in the middle of three frames: still Running.
TickContinuesWitness ==
    /\ lastOp.op = "tick"
    /\ 0 < currentTime
    /\ currentTime < maxTime
    /\ isPlaying
    /\ Len(frameCallbacks) = 1

\* C23 as stated: pause while Running leaves the engine Idle at the time it
\* had, the one the last animation frame computed or a seek set, and while
\* Idle only play, seek and reset change currentTime.
PauseFreezesTime ==
    [][/\ (handlePlayPause /\ isPlaying) => (~isPlaying' /\ currentTime' = currentTime)
       /\ (~isPlaying /\ ~handlePlayPause /\ ~Seek /\ ~handleReset)
             => currentTime' = currentTime]_vars

\* C24: reset, from Idle or Running, at any time and speed, leaves the
\* engine Idle at time 0 with no baseline, time 0 drawn, no frame requested
\* and the speed it had.
ResetToIdleAtZero ==
    [][handleReset =>
          /\ ~isPlaying'
          /\ currentTime' = 0
          /\ startTimeRef' = <<>>
          /\ speed' = speed
          /\ drawnTime' = 0
          /\ frameCallbacks' = <<>>]_vars

\* Reset at 2x after animation frames have run.
ResetToIdleAtZeroWitness ==
    /\ lastOp.op = "reset"
    /\ lastOp.at > 0
    /\ lastTimestamp > 0
    /\ speed = 4
    /\ ~isPlaying
    /\ currentTime = 0
    /\ startTimeRef = <<>>

\* C25: setSpeed(s) leaves isPlaying and currentTime as they are; a change
\* of speed while Running records the baseline now - currentTime / s and
\* requests a frame for speed s, and the first animation frame after that
\* computes currentTime + (timestamp - time of the change) * s, capped by
\* the duration: it continues from the time before the change.
SpeedChangeContinues ==
    [][/\ SpeedButton =>
            /\ isPlaying' = isPlaying
            /\ currentTime' = currentTime
            /\ (isPlaying /\ speed' # speed) =>
                  /\ startTimeRef' = Baseline(now, currentTime, speed')
                  /\ Len(frameCallbacks') = 1
                  /\ frameCallbacks'[1].speed = speed'
       /\ (/\ lastOp.op = "speed"
           /\ isPlaying
           /\ startTimeRef = Baseline(lastOp.at, currentTime, speed)
           /\ AnimationFrame) =>
            currentTime' =
               Min(currentTime + ((lastTimestamp' - lastOp.at) * speed) \div 2, maxTime)]_vars

\* The engine ran at 0.5x to 25 ms; the speed has just been set to 2x, and
\* the baseline and the requested frame are those of 2x from 25 ms.
SpeedChangeContinuesWitness ==
    /\ lastOp.op = "speed"
    /\ lastOp.at = now
    /\ isPlaying
    /\ speed = 4
    /\ currentTime = 25
    /\ startTimeRef = Baseline(now, 25, 4)
    /\ Len(frameCallbacks) = 1
    /\ frameCallbacks[1].speed = 4

\* The animation frame 50 ms after such a change: 25 + 50 * 2 = 125 ms.
SpeedChangeNextFrameWitness ==
    /\ lastOp.op = "tick"
    /\ isPlaying
    /\ speed = 4
    /\ currentTime = 125

\* C26: at most one animation frame callback is requested and not yet run,
\* and it is the one animationRef holds; while the mounted engine is Running
\* there is exactly one.  (A frame is requested only by animate, whose own
\* callback has then run and drawn, and by the effect, after its cleanup
\* has cancelled the one requested before: RequestFrame is used nowhere
\* else, and a callback left behind by either would be a second one here.)
OnePendingFrame ==
    /\ Len(frameCallbacks) <= 1
    /\ \A k \in 1..Len(frameCallbacks) : frameCallbacks[k].ref
    /\ (mounted /\ isPlaying) => Len(frameCallbacks) = 1

\* Running after an animation frame has run and the time it set has been
\* rendered: animate requested a frame, the cleanup cancelled it and the
\* effect requested the one that is pending.
OnePendingFrameWitness ==
    /\ lastOp.op = "tick"
    /\ isPlaying
    /\ 0 < currentTime
    /\ drawnTime = currentTime
    /\ startTimeRef = Baseline(now, currentTime, speed)
    /\ Len(frameCallbacks) = 1

\* C27: once the engine is stopped, Idle after a pause or a reset or
\* unmounted at any point of playback, no animation frame callback is left
\* requested and none runs; after the unmount currentTime and isPlaying
\* never change again.
StoppedCancelsFrame ==
    [][/\ (~mounted' \/ ~isPlaying') => frameCallbacks' = <<>>
       /\ (~mounted \/ ~isPlaying) => ~AnimationFrame
       /\ ~mounted => (currentTime' = currentTime /\ isPlaying' = isPlaying)]_vars

\* Unmounted in the middle of three frames while Running: the frame that
\* was requested is gone.
StoppedCancelsFrameWitness ==
    /\ lastOp.op = "unmount"
    /\ ~mounted
    /\ isPlaying
    /\ 0 < currentTime
    /\ currentTime < maxTime
    /\ now > lastOp.at
    /\ frameCallbacks = <<>>

----------------------------------------------------------------------------
(* Properties of the trail.                                                *)

\* C28 as stated: the trail of a draw at time T is sampled from
\* interpolateRobots at max(0, T - 1500), then every 100 ms; the sample times
\* lie in [0, T], there are at most 16, and the last one is T.
TrailEndsAtDrawTime ==
    trail # <<>> =>
        LET T == trail[1].time
            samples == trail[1].samples
            n == Len(samples)
        IN  /\ n >= 1
            /\ n <= 16
            /\ samples[1].t = Max(0, T - 1500)
            /\ \A k \in 1..(n - 1) : samples[k + 1].t = samples[k].t + 100
            /\ \A k \in 1..n :
                  /\ 0 <= samples[k].t
                  /\ samples[k].t <= T
                  /\ samples[k].robots = interpolateRobots(samples[k].t)
            /\ samples[n].t = T

\* What the loop does give: at most 16 samples inside [0, T], the last one
\* less than 100 ms before T, and exactly T from 1500 ms on and at multiples
\* of 100 ms; no sample at all for a negative T.
TrailWithinWindow ==
    trail # <<>> =>
        LET T == trail[1].time
            samples == trail[1].samples
            n == Len(samples)
        IN  /\ n <= 16
            /\ \A k \in 1..n : 0 <= samples[k].t /\ samples[k].t <= T
            /\ T < 0 => n = 0
            /\ T >= 0 => (n >= 1 /\ samples[n].t > T - 100)
            /\ (T >= 1500 \/ (T >= 0 /\ T % 100 = 0)) => samples[n].t = T

\* C30 as stated: while the engine stays Running, an animation frame that
\* follows another one, with nothing but re-runs of the effect in between
\* (no seek, reset or pause), never computes an earlier time than the one
\* before it.
TimeNeverDecreases ==
    [][(/\ isPlaying
        /\ lastOp.op = "tick" \/ (lastOp.op = "rerender" /\ lastOp.arg = 1)
        /\ AnimationFrame) => currentTime' >= currentTime]_vars

----------------------------------------------------------------------------
(* Termination of playback.                                                *)

\* Animation frames still needed at the current speed: each one that
\* advances adds ClockStep * speed / 2 ms.
FramesLeft ==
    ((maxTime - currentTime) * 2 + ClockStep * speed - 1) \div (ClockStep * speed)

\* The clock has room for them: an animation frame that carries the
\* timestamp at which the baseline was recorded adds nothing, so every other
\* one may be lost, and the callback pending now runs a step from now.
ClockSuffices ==
    MaxPlaybackClock * ClockStep - now >= ClockStep * (2 * FramesLeft + 1)

\* C29: a Running engine, at any of the speeds, that is left alone (no
\* pause, seek or reset) and whose animation frames keep being run with
\* advancing timestamps becomes Idle at the duration.
PlaybackTerminates ==
    (isPlaying /\ ClockSuffices) ~> (~isPlaying /\ currentTime = maxTime)

\* Playback of three frames at 0.5x has reached the end.
PlaybackTerminatesWitness ==
    /\ lastOp.op = "tick"
    /\ speed = 1
    /\ maxTime > 0
    /\ ~isPlaying
    /\ currentTime = maxTime
    /\ drawnTime = maxTime
    /\ frameCallbacks = <<>>

====
